---- MODULE Spec2Model ----
(***************************************************************************)
(* A model of dummy_img_gen.py: the font-size binary search                *)
(* (calculate_font_size), the system font lookup (find_system_font), the   *)
(* single-image generator (generate_placeholder_image) and the batch loop  *)
(* (generate_placeholder_images).                                          *)
(*                                                                         *)
(* Three specifications share the module:                                  *)
(*   SearchSpec  the binary search, one loop iteration per step;           *)
(*   FontSpec    find_system_font applied to a drawn filesystem;           *)
(*   Spec        the batch loop over a filesystem of output paths.         *)
(***************************************************************************)
EXTENDS Integers, Sequences, FiniteSets, TLC

VARIABLES
    \* ---- calculate_font_size ----
    image_size,      \* <<width, height>> of the canvas
    ratio_num,       \* target_ratio = ratio_num / RatioDen
    measure,         \* size -> outcome of truetype(font_path, size).getbbox(text)
    size_min,        \* lower bound of the search
    size_max,        \* upper bound of the search
    optimal_size,    \* best feasible size recorded
    probes,          \* history: the set of sizes probed so far
    escaped,         \* an exception left calculate_font_size
    spc,             \* "loop" in the while loop, "done" after return ("off": unused)
    \* ---- find_system_font ----
    platform,        \* [os_name, sys_platform] of the running interpreter
    font_files,      \* the files below the font roots, in listing order
    empty_roots,     \* font roots that exist and hold no file
    font_result,     \* [kind, path] once find_system_font has run
    fpc,             \* "call" before the call, "done" after ("off": unused)
    \* ---- generate_placeholder_images ----
    args,            \* the arguments of the running batch
    fs,              \* output path (by number) -> file contents
    i,               \* loop index of the batch
    generated_files, \* the list being returned
    out,             \* lines printed
    attempts,        \* history: [number, outcome] of every call made
    last_draw,       \* the last draw.text call: canvas, bbox, x, y
    bpc              \* "idle", "loop", "returned", "raised" ("off": unused)

searchVars == <<image_size, ratio_num, measure, size_min, size_max,
                optimal_size, probes, escaped, spc>>
fontVars   == <<platform, font_files, empty_roots, font_result, fpc>>
batchVars  == <<args, fs, i, generated_files, out, attempts, last_draw,
                bpc>>
vars == <<searchVars, fontVars, batchVars>>

MaxDim == 13     \* largest canvas side drawn for the step-wise search

Min(a, b) == IF a <= b THEN a ELSE b
Max(a, b) == IF a >= b THEN a ELSE b

(***************************************************************************)
(* calculate_font_size                                                     *)
(***************************************************************************)
SizeFloor == 10          \* size_min, optimal_size start here
RatioDen  == 10          \* ratios are tenths: r = ratio_num / 10

\* The result of loading the font at a size and measuring the text: either
\* an exception (kind "err") or a bounding box <<left, top, right, bottom>>.
ErrOutcome == [kind |-> "err", bbox |-> <<0, 0, 0, 0>>]
OkOutcome(b) == [kind |-> "ok", bbox |-> b]

TextWidth(b)  == b[3] - b[1]
TextHeight(b) == b[4] - b[2]

\* text_width <= target_width and text_height <= target_height, where
\* target_width = width * target_ratio (exact arithmetic on tenths).
FitsTarget(b, W, H, num) ==
    /\ TextWidth(b)  * RatioDen <= W * num
    /\ TextHeight(b) * RatioDen <= H * num

MidSize(lo, hi) == (lo + hi) \div 2

SearchStart(W, H) ==
    [size_min |-> SizeFloor, size_max |-> Min(W, H),
     optimal_size |-> SizeFloor, escaped |-> FALSE]

\* except Exception: size_max = mid_size - 1
\* (faulty variant: the exception is not caught)
OnProbeErrorPropagates(st, mid) == [st EXCEPT !.escaped = TRUE]
OnProbeError(st, mid) == [st EXCEPT !.size_max = mid - 1]

\* the if branch: record and search larger sizes
\* (faulty variants: the size is not recorded; the lower bound skips a size)
OnFitKeepsBest(st, mid) == [st EXCEPT !.size_min = mid + 1]
OnFitSkips(st, mid) == [st EXCEPT !.optimal_size = mid, !.size_min = mid + 2]
OnFit(st, mid) == [st EXCEPT !.optimal_size = mid, !.size_min = mid + 1]

\* the else branch: search smaller sizes
\* (faulty variants: the size is recorded; the upper bound does not move)
OnNoFitRecords(st, mid) ==
    [st EXCEPT !.optimal_size = mid, !.size_max = mid - 1]
OnNoFitStays(st, mid) == [st EXCEPT !.size_max = mid]
OnNoFit(st, mid) == [st EXCEPT !.size_max = mid - 1]

\* One iteration of the while loop, given the measurement function m.
ProbeStep(st, m, W, H, num) ==
    LET mid == MidSize(st.size_min, st.size_max)
        o   == m[mid]
    IN  IF o.kind = "err" THEN OnProbeError(st, mid)
        ELSE IF FitsTarget(o.bbox, W, H, num) THEN OnFit(st, mid)
        ELSE OnNoFit(st, mid)

LoopGuard(st) == st.size_min <= st.size_max /\ ~st.escaped

RECURSIVE SearchLoop(_, _, _, _, _)
SearchLoop(st, m, W, H, num) ==
    IF LoopGuard(st) THEN SearchLoop(ProbeStep(st, m, W, H, num), m, W, H, num)
    ELSE st

\* calculate_font_size as a function of its inputs.
CalculateFontSize(m, W, H, num) == SearchLoop(SearchStart(W, H), m, W, H, num)


(***************************************************************************)
(* find_system_font                                                        *)
(*                                                                         *)
(* A path is [root, sub, name]: a font root directory, the directory below *)
(* it ("" for the root itself) and the file name as a sequence of          *)
(* characters, so that lower() and endswith() are computed on the name.    *)
(***************************************************************************)
File(r, d, n) == [root |-> r, sub |-> d, name |-> n]
NoFile == File("", "", <<>>)
NoFontResult == [kind |-> "none", path |-> NoFile]

PotentialFontsNt ==
    << [root |-> "C:\\Windows\\Fonts", sub |-> "", name |-> <<"A", "r", "i", "a", "l", ".", "t", "t", "f">>],
       [root |-> "C:\\Windows\\Fonts", sub |-> "", name |-> <<"A", "r", "i", "a", "l", " ", "B", "o", "l", "d", ".", "t", "t", "f">>],
       [root |-> "C:\\Windows\\Fonts", sub |-> "", name |-> <<"C", "a", "l", "i", "b", "r", "i", ".", "t", "t", "f">>],
       [root |-> "C:\\Windows\\Fonts", sub |-> "", name |-> <<"S", "e", "g", "o", "e", " ", "U", "I", " ", "B", "o", "l", "d", ".", "t", "t", "f">>] >>

PotentialFontsDarwin ==
    << [root |-> "/System/Library/Fonts", sub |-> "", name |-> <<"H", "e", "l", "v", "e", "t", "i", "c", "a", ".", "t", "t", "c">>],
       [root |-> "/System/Library/Fonts", sub |-> "", name |-> <<"S", "F", "C", "o", "m", "p", "a", "c", "t", "-", "B", "o", "l", "d", ".", "o", "t", "f">>],
       [root |-> "/Library/Fonts", sub |-> "", name |-> <<"A", "r", "i", "a", "l", ".", "t", "t", "f">>],
       [root |-> "/Library/Fonts", sub |-> "", name |-> <<"A", "r", "i", "a", "l", " ", "B", "o", "l", "d", ".", "t", "t", "f">>] >>

PotentialFontsOther ==
    << [root |-> "/usr/share/fonts", sub |-> "truetype/dejavu", name |-> <<"D", "e", "j", "a", "V", "u", "S", "a", "n", "s", "-", "B", "o", "l", "d", ".", "t", "t", "f">>],
       [root |-> "/usr/share/fonts", sub |-> "truetype/liberation", name |-> <<"L", "i", "b", "e", "r", "a", "t", "i", "o", "n", "S", "a", "n", "s", "-", "B", "o", "l", "d", ".", "t", "t", "f">>],
       [root |-> "/usr/share/fonts", sub |-> "truetype/ubuntu", name |-> <<"U", "b", "u", "n", "t", "u", "-", "B", "o", "l", "d", ".", "t", "t", "f">>],
       [root |-> "/usr/share/fonts", sub |-> "TTF", name |-> <<"A", "r", "i", "a", "l", ".", "t", "t", "f">>] >>

\* if os.name == 'nt' ... elif sys.platform == 'darwin' ... else ...
PotentialFonts(p) ==
    IF p.os_name = "nt" THEN PotentialFontsNt
    ELSE IF p.sys_platform = "darwin" THEN PotentialFontsDarwin
    ELSE PotentialFontsOther

\* font_dirs, the same list on every platform ("~" already expanded).
FontDirs ==
    << "/usr/share/fonts", "/usr/local/share/fonts", "/home/user/.fonts",
       "C:\\Windows\\Fonts", "/Library/Fonts", "/System/Library/Fonts" >>

\* os.path.exists of a path below a font root.
PathExists(files, p) == \E k \in 1..Len(files) : files[k] = p

\* os.path.exists(font_dir)
DirExists(files, empty, r) ==
    r \in empty \/ \E k \in 1..Len(files) : files[k].root = r

\* for font_path in potential_fonts: if os.path.exists(font_path): return
RECURSIVE FirstExistingFrom(_, _, _)
FirstExistingFrom(paths, files, k) ==
    IF k > Len(paths) THEN NoFontResult
    ELSE IF PathExists(files, paths[k]) THEN [kind |-> "ok", path |-> paths[k]]
    ELSE FirstExistingFrom(paths, files, k + 1)

FirstExisting(paths, files) == FirstExistingFrom(paths, files, 1)

\* str.lower() on one character
LowerChar(c) ==
    CASE c = "A" -> "a" [] c = "B" -> "b" [] c = "C" -> "c" [] c = "D" -> "d"
      [] c = "E" -> "e" [] c = "F" -> "f" [] c = "G" -> "g" [] c = "H" -> "h"
      [] c = "I" -> "i" [] c = "J" -> "j" [] c = "K" -> "k" [] c = "L" -> "l"
      [] c = "M" -> "m" [] c = "N" -> "n" [] c = "O" -> "o" [] c = "P" -> "p"
      [] c = "Q" -> "q" [] c = "R" -> "r" [] c = "S" -> "s" [] c = "T" -> "t"
      [] c = "U" -> "u" [] c = "V" -> "v" [] c = "W" -> "w" [] c = "X" -> "x"
      [] c = "Y" -> "y" [] c = "Z" -> "z" [] OTHER -> c

Lower(name) == [k \in 1..Len(name) |-> LowerChar(name[k])]

\* str.endswith(suffix)
EndsWith(name, suffix) ==
    /\ Len(name) >= Len(suffix)
    /\ SubSeq(name, Len(name) - Len(suffix) + 1, Len(name)) = suffix

DotTtf == <<".", "t", "t", "f">>
DotOtf == <<".", "o", "t", "f">>

\* file.lower().endswith(('.ttf', '.otf'))
\* (faulty variant: no lower())
IsFontFileCaseSensitive(name) == EndsWith(name, DotTtf) \/ EndsWith(name, DotOtf)
IsFontFile(name) == EndsWith(Lower(name), DotTtf) \/ EndsWith(Lower(name), DotOtf)

\* The positions in the listing of the files os.walk(r) yields, in the order
\* it yields them: the files of r itself first (top-down walk), then each
\* directory below it, directories in listing order.
FilesOfDir(files, r, d) ==
    SelectSeq([k \in 1..Len(files) |-> k],
              LAMBDA k : files[k].root = r /\ files[k].sub = d)

SubDirsInOrder(files, r) ==
    LET idx == SelectSeq([k \in 1..Len(files) |-> k],
                 LAMBDA k : /\ files[k].root = r /\ files[k].sub # ""
                            /\ \A j \in 1..(k - 1) :
                                  ~(files[j].root = r /\ files[j].sub = files[k].sub))
    IN  [n \in 1..Len(idx) |-> files[idx[n]].sub]

RECURSIVE WalkDirs(_, _, _, _)
WalkDirs(files, r, dirs, n) ==
    IF n > Len(dirs) THEN <<>>
    ELSE FilesOfDir(files, r, dirs[n]) \o WalkDirs(files, r, dirs, n + 1)

Walk(files, r) ==
    LET idx == FilesOfDir(files, r, "")
                 \o WalkDirs(files, r, SubDirsInOrder(files, r), 1)
    IN  [n \in 1..Len(idx) |-> files[idx[n]]]

\* for file in files: if file.lower().endswith(...): return join(root, file)
RECURSIVE FirstFontIn(_, _)
FirstFontIn(walk, n) ==
    IF n > Len(walk) THEN NoFontResult
    ELSE IF IsFontFile(walk[n].name) THEN [kind |-> "ok", path |-> walk[n]]
    ELSE FirstFontIn(walk, n + 1)

\* for font_dir in font_dirs: if os.path.exists(font_dir): os.walk(...)
RECURSIVE ScanFontDirs(_, _, _)
ScanFontDirs(files, empty, n) ==
    IF n > Len(FontDirs) THEN [kind |-> "not_found", path |-> NoFile]
    ELSE LET found == IF DirExists(files, empty, FontDirs[n])
                      THEN FirstFontIn(Walk(files, FontDirs[n]), 1)
                      ELSE NoFontResult
         IN  IF found.kind = "ok" THEN found
             ELSE ScanFontDirs(files, empty, n + 1)

\* find_system_font(): a path, or FileNotFoundError (kind "not_found")
FindSystemFont(p, files, empty) ==
    LET known == FirstExisting(PotentialFonts(p), files)
    IN  IF known.kind = "ok" THEN known
        ELSE ScanFontDirs(files, empty, 1)

---------------------------------------------------------------------------
\* The step-wise search: inputs drawn in SearchInit, one probe per step.

\* Canvas sides from below the floor (bounds crossed at once) upwards.
Dims == (SizeFloor - 2)..MaxDim
RatioNums == {0, 6, 10}
SearchBBoxes == { <<0, 1, 3, 4>>, <<0, 2, 6, 8>>, <<-1, 1, 9, 12>> }
SearchOutcomes == {ErrOutcome} \cup { OkOutcome(b) : b \in SearchBBoxes }

SearchState ==
    [size_min |-> size_min, size_max |-> size_max,
     optimal_size |-> optimal_size, escaped |-> escaped]

FontIdle ==
    /\ platform = [os_name |-> "posix", sys_platform |-> "linux"]
    /\ font_files = <<>> /\ empty_roots = {}
    /\ font_result = NoFontResult /\ fpc = "off"

BatchIdle ==
    /\ args = [count |-> 0] /\ fs = <<>> /\ i = 0 /\ generated_files = <<>>
    /\ out = <<>> /\ attempts = <<>> /\ last_draw = <<>>
    /\ bpc = "off"

SearchIdle ==
    /\ image_size = <<0, 0>> /\ ratio_num = 0 /\ measure = <<>>
    /\ size_min = 0 /\ size_max = 0 /\ optimal_size = 0 /\ probes = {}
    /\ escaped = FALSE /\ spc = "off"

SearchInit ==
    /\ image_size \in Dims \X Dims
    /\ ratio_num \in RatioNums
    /\ measure \in [SizeFloor..MaxDim -> SearchOutcomes]
    /\ size_min = SearchStart(image_size[1], image_size[2]).size_min
    /\ size_max = SearchStart(image_size[1], image_size[2]).size_max
    /\ optimal_size = SearchStart(image_size[1], image_size[2]).optimal_size
    /\ escaped = FALSE
    /\ probes = {}
    /\ spc = "loop"
    /\ FontIdle /\ BatchIdle

\* while size_min <= size_max: one probe
Probe ==
    /\ spc = "loop"
    /\ LoopGuard(SearchState)
    /\ LET st == ProbeStep(SearchState, measure, image_size[1], image_size[2],
                           ratio_num)
       IN  /\ size_min' = st.size_min
           /\ size_max' = st.size_max
           /\ optimal_size' = st.optimal_size
           /\ escaped' = st.escaped
    /\ probes' = probes \cup {MidSize(size_min, size_max)}
    /\ UNCHANGED <<image_size, ratio_num, measure, spc, fontVars, batchVars>>

\* the loop condition fails (or an exception escaped): return optimal_size
Return ==
    /\ spc = "loop"
    /\ ~LoopGuard(SearchState)
    /\ spc' = "done"
    /\ UNCHANGED <<image_size, ratio_num, measure, size_min, size_max,
                   optimal_size, probes, escaped, fontVars, batchVars>>

SearchNext == Probe \/ Return

\* The loop is synchronous code: it keeps running until it returns.
SearchSpec == SearchInit /\ [][SearchNext]_vars /\ WF_vars(SearchNext)


---------------------------------------------------------------------------
\* find_system_font applied to a drawn platform and font filesystem.

MaxFontFiles == 3    \* files below the font roots

Platforms ==
    { [os_name |-> "nt", sys_platform |-> "win32"],
      [os_name |-> "posix", sys_platform |-> "darwin"],
      [os_name |-> "posix", sys_platform |-> "linux"] }

\* Files a font root may hold: well-known ones of each platform, and files
\* whose names end (or do not end) in a font extension in various cases.
FilePool ==
    { PotentialFontsOther[1], PotentialFontsOther[4], PotentialFontsDarwin[1],
      PotentialFontsDarwin[3], PotentialFontsNt[3],
      File("/usr/share/fonts", "", <<"R", "E", "A", "D", "M", "E", ".", "t", "x", "t">>),
      File("/usr/local/share/fonts", "", <<"X", ".", "O", "T", "F">>),
      File("/home/user/.fonts", "", <<"t", "t", "f">>),
      File("/usr/share/fonts", "misc", <<"a", ".", "T", "t", "f">>),
      File("/Library/Fonts", "", <<"b", ".", "o", "t", "f", ".", "b", "a", "k">>) }

EmptyRootPool == { "/usr/local/share/fonts", "/Library/Fonts" }

\* Listings: sequences of distinct files.
Listings(n) ==
    { l \in UNION { [1..k -> FilePool] : k \in 0..n } :
        \A a, b \in 1..Len(l) : a # b => l[a] # l[b] }

FontInit ==
    /\ platform \in Platforms
    /\ font_files \in Listings(MaxFontFiles)
    /\ empty_roots \in SUBSET EmptyRootPool
    /\ font_result = NoFontResult
    /\ fpc = "call"
    /\ SearchIdle /\ BatchIdle

ResolveFont ==
    /\ fpc = "call"
    /\ font_result' = FindSystemFont(platform, font_files, empty_roots)
    /\ fpc' = "done"
    /\ UNCHANGED <<platform, font_files, empty_roots, searchVars, batchVars>>

FontNext == ResolveFont

FontSpec == FontInit /\ [][FontNext]_vars

---------------------------------------------------------------------------
\* The batch.
(***************************************************************************)
(* generate_placeholder_image                                              *)
(***************************************************************************)
\* parse_color: ImageColor.getcolor on the colour strings the batch draws;
\* any other string is a ValueError.
ParseColor(c) ==
    CASE c = "#cccccc" -> [ok |-> TRUE, rgba |-> <<204, 204, 204, 255>>]
      [] c = "#333333" -> [ok |-> TRUE, rgba |-> <<51, 51, 51, 255>>]
      [] OTHER -> [ok |-> FALSE, rgba |-> <<0, 0, 0, 0>>]

\* The rendering backend: truetype(font_path, size).getbbox(str(number)).
\* "linear" is a font whose box grows with the size and varies with the
\* text; "broken" is a font file that cannot be loaded at any size. A size
\* below 1 is refused by truetype.
FontBBox(kind, n, s) ==
    IF kind = "broken" \/ s < 1 THEN ErrOutcome
    ELSE OkOutcome(<< -(n % 2), (s + 1) \div 5,
                      (5 * s) \div 3 + (n \div 3), (5 * s) \div 4 >>)

MeasureOf(kind, n, W, H) ==
    [s \in SizeFloor..Max(SizeFloor, Min(W, H)) |-> FontBBox(kind, n, s)]

\* target_ratio = 1.0 - 2 * padding, padding in tenths
TargetRatioNum(padding_num) == RatioDen - 2 * padding_num

\* x = (size[0] - text_width) // 2 ; y = (size[1] - bbox[1] - bbox[3]) // 2
\* (\div is floor division, as // is; faulty variant: truncation to zero)
TruncDiv2(n) == IF n >= 0 THEN n \div 2 ELSE -((-n) \div 2)
CenteredOriginTruncating(W, H, b) ==
    << TruncDiv2(W - TextWidth(b)), TruncDiv2(H - b[2] - b[4]) >>
CenteredOrigin(W, H, b) ==
    << (W - TextWidth(b)) \div 2, (H - b[2] - b[4]) \div 2 >>

\* File contents: nothing, a file from before, or an image drawn here.
Absent == [exists |-> FALSE, text |-> 0, font_size |-> 0, origin |-> <<0, 0>>]
OldFile == [exists |-> TRUE, text |-> 0, font_size |-> 0, origin |-> <<0, 0>>]
\* What a save that failed after opening the file leaves at the path.
Damaged == [exists |-> TRUE, text |-> -1, font_size |-> 0, origin |-> <<0, 0>>]
ImageFile(n, fsz, xy) ==
    [exists |-> TRUE, text |-> n, font_size |-> fsz, origin |-> xy]

NoDraw == [size |-> <<0, 0>>, bbox |-> <<0, 0, 0, 0>>, origin |-> <<0, 0>>]

\* f"{prefix}{current_num}.{format}" joined to output_dir
OutputPath(a, n) == <<a.output_dir, a.prefix, n, a.format>>

ImageResult(kind, files, draw, lines) ==
    [outcome |-> kind, fs |-> files, draw |-> draw, lines |-> lines]

\* if os.path.exists(output_path) and not overwrite
\* (faulty variant: the flag inverted)
SkipGuardInverted(a, files, path) == files[path].exists /\ a.overwrite
SkipGuard(a, files, path) == files[path].exists /\ ~a.overwrite

\* generate_placeholder_image(number, output_path, ...): the files after the
\* call, the draw.text made, the lines printed, and whether it returned
\* ("skipped", "saved") or raised ("error").
\*   env.font is the backend's behaviour for this text; env.save is "ok",
\*   "refused" (makedirs or opening the file raised OSError, nothing written)
\*   or "partial" (save raised after the file was opened for writing);
\*   p, ffiles, eroots are what find_system_font sees.
GeneratePlaceholderImage(a, n, files, draw, env, p, ffiles, eroots) ==
    LET path == OutputPath(a, n)
        W == a.size[1]
        H == a.size[2]
        found == IF a.font_path = "" THEN FindSystemFont(p, ffiles, eroots)
                 ELSE [kind |-> "ok", path |-> NoFile]
        bg == ParseColor(a.bg_color)
        fg == ParseColor(a.text_color)
        fsz == IF a.font_size.given THEN a.font_size.value
               ELSE CalculateFontSize(MeasureOf(env.font, n, W, H), W, H,
                                      TargetRatioNum(a.padding)).optimal_size
        loaded == FontBBox(env.font, n, fsz)
        xy == CenteredOrigin(W, H, loaded.bbox)
        drawn == [size |-> a.size, bbox |-> loaded.bbox, origin |-> xy]
    IN  IF SkipGuard(a, files, path)
        THEN ImageResult("skipped", files, draw, << <<"Skipping", path>> >>)
        ELSE IF found.kind # "ok" THEN ImageResult("error", files, draw, <<>>)
        ELSE IF ~bg.ok \/ ~fg.ok THEN ImageResult("error", files, draw, <<>>)
        ELSE IF loaded.kind = "err" THEN ImageResult("error", files, draw, <<>>)
        ELSE IF env.save = "refused"
        THEN ImageResult("error", files, drawn, <<>>)
        ELSE IF env.save = "partial"
        THEN ImageResult("error", [files EXCEPT ![path] = Damaged], drawn, <<>>)
        ELSE ImageResult("saved",
                         [files EXCEPT ![path] = ImageFile(n, fsz, xy)],
                         drawn, <<>>)

(***************************************************************************)
(* generate_placeholder_images                                             *)
(***************************************************************************)
MaxCount == 3        \* largest count drawn

StartNums == {1, 2}
Numbers == 1..(MaxCount + 1)

BatchArgs ==
    [ output_dir : {"out"}, prefix : {"img_"}, format : {"png"},
      count : 0..MaxCount, start_num : StartNums,
      size : { <<100, 100>>, <<12, 9>> },
      bg_color : {"#cccccc", "notacolor123"}, text_color : {"#333333"},
      font_path : {"", "custom.ttf"},
      font_size : { [given |-> FALSE, value |-> 0], [given |-> TRUE, value |-> 24] },
      overwrite : BOOLEAN, padding : {3} ]

Paths == { OutputPath(a, n) : a \in BatchArgs, n \in Numbers }

ImageEnvs == [font : {"linear", "broken"}, save : {"ok", "refused", "partial"}]

\* except Exception as e: print(f"Error generating {output_path}: {e}")
\* (faulty variant: the exception leaves the batch)
OnImageErrorAborts(st, path) == [st EXCEPT !.bpc = "raised"]
OnImageError(st, path) ==
    [st EXCEPT !.out = Append(@, <<"Error generating", path>>)]

\* generated_files.append(path); print(f"Generated: {path}")
\* (faulty variant: a skipped path is not listed)
OnImageReturnedDropsSkipped(st, path, r) ==
    IF r.outcome = "skipped" THEN [st EXCEPT !.out = @ \o r.lines]
    ELSE [st EXCEPT !.generated_files = Append(@, path),
                    !.out = Append(@ \o r.lines, <<"Generated", path>>)]
OnImageReturned(st, path, r) ==
    [st EXCEPT !.generated_files = Append(@, path),
               !.out = Append(@ \o r.lines, <<"Generated", path>>)]

\* current_num = start_num + i
CurrentNum(a, k) == a.start_num + k

\* The batches drawn: at most one of the colour, the font path and the
\* font size departs from a plain call with a custom font.
PlainBut(a) ==
    Cardinality({ f \in {"bg_color", "font_path", "font_size"} :
                    \/ f = "bg_color" /\ a.bg_color # "#cccccc"
                    \/ f = "font_path" /\ a.font_path = ""
                    \/ f = "font_size" /\ a.font_size.given }) <= 1

\* The output directory at the start: empty, or holding one earlier file,
\* at the one number every drawn batch of two or more images reaches.
EarlierNumber == CHOOSE n \in StartNums : \A m \in StartNums : m <= n

InitialFiles ==
    { [p \in Paths |-> Absent],
      [p \in Paths |-> IF p[3] = EarlierNumber THEN OldFile ELSE Absent] }

BatchInit ==
    /\ args \in { a \in BatchArgs : PlainBut(a) }
    /\ fs \in InitialFiles
    /\ i = 0 /\ generated_files = <<>> /\ out = <<>> /\ attempts = <<>>
    /\ last_draw = NoDraw
    /\ bpc = "idle"
    /\ platform = [os_name |-> "posix", sys_platform |-> "linux"]
    /\ font_files \in IF args.font_path = ""
                      THEN { <<>>, <<PotentialFontsDarwin[3]>> }
                      ELSE { <<>> }
    /\ empty_roots = {}
    /\ font_result = NoFontResult /\ fpc = "off"
    /\ SearchIdle

\* os.makedirs(output_dir, exist_ok=True); generated_files = []
\* (also the same batch called again after it returned or raised)
StartBatch ==
    /\ bpc \in {"idle", "returned", "raised"}
    /\ \E dir_ok \in BOOLEAN :
          bpc' = IF dir_ok THEN "loop" ELSE "raised"
    /\ i' = 0 /\ generated_files' = <<>> /\ out' = <<>> /\ attempts' = <<>>
    /\ UNCHANGED <<args, fs, last_draw, searchVars, fontVars>>

\* one iteration of: for i in range(count)
GenerateImage ==
    /\ bpc = "loop"
    /\ i < args.count
    /\ \E env \in ImageEnvs :
         LET n == CurrentNum(args, i)
             path == OutputPath(args, n)
             r == GeneratePlaceholderImage(args, n, fs, last_draw, env,
                                           platform, font_files, empty_roots)
             st == [generated_files |-> generated_files, out |-> out,
                    bpc |-> bpc]
             st2 == IF r.outcome = "error" THEN OnImageError(st, path)
                    ELSE OnImageReturned(st, path, r)
         IN  /\ fs' = r.fs
             /\ last_draw' = r.draw
             /\ generated_files' = st2.generated_files
             /\ out' = st2.out
             /\ bpc' = st2.bpc
             /\ attempts' = Append(attempts, [number |-> n, outcome |-> r.outcome])
    /\ i' = i + 1
    /\ UNCHANGED <<args, searchVars, fontVars>>

\* return generated_files
ReturnBatch ==
    /\ bpc = "loop"
    /\ i >= args.count
    /\ bpc' = "returned"
    /\ UNCHANGED <<args, fs, i, generated_files, out, attempts, last_draw,
                   searchVars, fontVars>>

Next == StartBatch \/ GenerateImage \/ ReturnBatch

Init == BatchInit

Spec == Init /\ [][Next]_vars

---------------------------------------------------------------------------
\* Properties of the search.

SearchRange == SizeFloor..Min(image_size[1], image_size[2])

\* The text measured at size s fits the target fraction of the canvas.
Feasible(s) ==
    /\ measure[s].kind = "ok"
    /\ FitsTarget(measure[s].bbox, image_size[1], image_size[2], ratio_num)

\* Feasibility is non-increasing in the font size.
Monotone ==
    \A a, b \in SearchRange : (a < b /\ Feasible(b)) => Feasible(a)

\* Ground truth: scan 10..min(w, h) upwards, keep the last feasible size.
RECURSIVE LinearScan(_, _)
LinearScan(s, best) ==
    IF s > Min(image_size[1], image_size[2]) THEN best
    ELSE LinearScan(s + 1, IF Feasible(s) THEN s ELSE best)

FeasibleProbes == { s \in probes : Feasible(s) }

\* C1: with monotone feasibility and some feasible size in [10, min(w, h)],
\* the search returns the maximum feasible size, the result of a linear scan.
C1_SearchEqualsLinearScan ==
    (spc = "done" /\ Monotone /\ \E s \in SearchRange : Feasible(s))
        => /\ optimal_size = LinearScan(SizeFloor, SizeFloor - 1)
           /\ Feasible(optimal_size)
           /\ \A s \in SearchRange : Feasible(s) => s <= optimal_size

C1_Witness ==
    /\ spc = "done" /\ Monotone
    /\ optimal_size = 12 /\ image_size = <<13, 13>>
    /\ Cardinality(probes) = 3
    /\ ~Feasible(13)

\* C2 as stated: the returned size always fits.
C2_ReturnedSizeFits == spc = "done" => Feasible(optimal_size)

\* C2 amended: the returned size fits whenever some probed size fitted.
C2_ReturnedSizeFitsIfProbeFit ==
    (spc = "done" /\ FeasibleProbes # {}) => Feasible(optimal_size)

C2_Witness ==
    /\ spc = "done" /\ ~Monotone
    /\ Cardinality(FeasibleProbes) = 1
    /\ Cardinality(probes) = 2
    /\ optimal_size > SizeFloor

\* C3: the search terminates and returns an integer >= 10, whatever the
\* canvas, the ratio and the probe outcomes.
C3_TerminatesAtLeastFloor ==
    /\ <>(spc = "done")
    /\ [](spc = "done" => (optimal_size \in Int /\ optimal_size >= SizeFloor))

C3_Witness ==
    /\ spc = "done" /\ image_size = <<10, 10>> /\ ratio_num = 10
    /\ probes = {10} /\ optimal_size = 10 /\ ~Feasible(10)

C3_WitnessCrossed ==
    /\ spc = "done" /\ Min(image_size[1], image_size[2]) < SizeFloor
    /\ probes = {} /\ optimal_size = SizeFloor

\* C4: an error at the probed size lowers the upper bound to mid_size - 1,
\* leaves the best-so-far and the lower bound alone, keeps the search going
\* and never leaves calculate_font_size.
C4_ProbeErrorIsInfeasible ==
    [][ (spc = "loop" /\ LoopGuard(SearchState)
          /\ measure[MidSize(size_min, size_max)].kind = "err")
        => /\ size_max' = MidSize(size_min, size_max) - 1
           /\ optimal_size' = optimal_size
           /\ size_min' = size_min
           /\ ~escaped'
           /\ spc' = "loop" ]_vars

C4_Witness ==
    /\ spc = "done" /\ ~escaped
    /\ \E s \in probes : measure[s].kind = "err"
    /\ \E s \in probes : Feasible(s)
    /\ Cardinality(probes) = 3

\* C5: the search stops with size_min > size_max and returns the best
\* feasible size recorded; with no feasible probe it returns exactly 10.
C5_ReturnsBestOrFloor ==
    spc = "done" =>
        /\ size_min > size_max
        /\ FeasibleProbes = {} => optimal_size = SizeFloor
        /\ FeasibleProbes # {} =>
              /\ optimal_size \in FeasibleProbes
              /\ \A s \in FeasibleProbes : s <= optimal_size

C5_Witness ==
    /\ spc = "done" /\ Cardinality(probes) = 2
    /\ FeasibleProbes = {} /\ optimal_size = SizeFloor
    /\ \E s \in probes : measure[s].kind = "ok"

C5_WitnessBest ==
    /\ spc = "done" /\ Cardinality(FeasibleProbes) = 2
    /\ optimal_size = 13

---------------------------------------------------------------------------
\* Properties of find_system_font.

\* The well-known list of the running platform category: windows-like,
\* mac-like, or other.
KnownList ==
    CASE platform.os_name = "nt" -> PotentialFontsNt
      [] platform.os_name # "nt" /\ platform.sys_platform = "darwin"
           -> PotentialFontsDarwin
      [] OTHER -> PotentialFontsOther

\* The well-known paths of the running platform category that exist.
KnownExisting ==
    { k \in 1..Len(KnownList) :
        \E n \in 1..Len(font_files) : font_files[n] = KnownList[k] }

\* The name ends in .ttf or .otf, whatever the case of the letters.
HasFontExtension(name) ==
    /\ Len(name) >= 4
    /\ name[Len(name) - 3] = "."
    /\ name[Len(name) - 2] \in {"t", "T", "o", "O"}
    /\ name[Len(name) - 1] \in {"t", "T"}
    /\ name[Len(name)] \in {"f", "F"}

\* Every file the fallback can meet, in the order it meets them.
RECURSIVE ScanOrder(_)
ScanOrder(n) ==
    IF n > Len(FontDirs) THEN <<>>
    ELSE Walk(font_files, FontDirs[n]) \o ScanOrder(n + 1)

FontCandidates == SelectSeq(ScanOrder(1), LAMBDA f : HasFontExtension(f.name))

RootsOfList(list) == { list[k].root : k \in 1..Len(list) }

\* The font roots that only another platform category's well-known list uses.
ForeignRoots ==
    UNION { RootsOfList(l) :
              l \in {PotentialFontsNt, PotentialFontsDarwin, PotentialFontsOther}
                      \ {KnownList} }
        \ RootsOfList(KnownList)

\* C9 as stated, the part about the roots: the fallback walks a list of font
\* roots specific to the platform, so it never returns a file below a root
\* that belongs to another platform category.
C9_FallbackRootsArePlatformSpecific ==
    (fpc = "done" /\ KnownExisting = {} /\ font_result.kind = "ok")
        => font_result.path.root \notin ForeignRoots

\* C9 amended: the first existing well-known path of the platform category
\* is returned; otherwise the first file with a font extension met while
\* walking the one list of six font roots, the same on every platform; the
\* call fails exactly when there is neither.
C9_FontResolution ==
    fpc = "done" =>
        IF KnownExisting # {}
        THEN /\ font_result.kind = "ok"
             /\ \E k \in KnownExisting :
                   /\ font_result.path = KnownList[k]
                   /\ \A j \in KnownExisting : k <= j
        ELSE IF FontCandidates # <<>>
        THEN /\ font_result.kind = "ok"
             /\ font_result.path = Head(FontCandidates)
        ELSE font_result.kind = "not_found"

C9_Witness ==
    /\ fpc = "done" /\ KnownExisting = {}
    /\ font_result.kind = "ok"
    /\ font_result.path.root \in ForeignRoots
    /\ Len(FontCandidates) >= 2
    /\ Len(font_files) > Len(FontCandidates)

C9_WitnessKnown ==
    /\ fpc = "done" /\ Cardinality(KnownExisting) = 2
    /\ font_result.path = KnownList[1]

C9_WitnessNotFound ==
    /\ fpc = "done" /\ font_result.kind = "not_found" /\ Len(font_files) = 3

---------------------------------------------------------------------------
\* Properties of the batch.

CurrentPath == OutputPath(args, args.start_num + i)

Failed == { k \in 1..Len(attempts) : attempts[k].outcome = "error" }

ErrorLines == SelectSeq(out, LAMBDA l : l[1] = "Error generating")
GeneratedLines == SelectSeq(out, LAMBDA l : l[1] = "Generated")

\* The paths of the attempts that did not raise, in the order attempted.
ReturnedAttempts ==
    LET ok == SelectSeq(attempts, LAMBDA t : t.outcome # "error")
    IN  [k \in 1..Len(ok) |-> OutputPath(args, ok[k].number)]

FailedAttempts ==
    LET bad == SelectSeq(attempts, LAMBDA t : t.outcome = "error")
    IN  [k \in 1..Len(bad) |-> OutputPath(args, bad[k].number)]

\* C6: a failure on image N is caught and reported for that image only, the
\* batch does not raise because of it, and the images after N are still
\* attempted; a 3-image batch whose image 2 alone fails produces 1 and 3.
C6_BatchPartialFailure ==
    /\ bpc = "raised" => attempts = <<>>
    /\ bpc \in {"loop", "returned"} => Len(attempts) = i
    /\ bpc = "returned" => Len(attempts) = args.count
    /\ \A k \in 1..Len(attempts) : attempts[k].number = args.start_num + k - 1
    /\ [k \in 1..Len(ErrorLines) |-> ErrorLines[k][2]] = FailedAttempts
    /\ (bpc = "returned" /\ args.count = 3 /\ Failed = {2})
          => /\ fs[OutputPath(args, args.start_num)].exists
             /\ fs[OutputPath(args, args.start_num + 2)].exists
             /\ generated_files = << OutputPath(args, args.start_num),
                                     OutputPath(args, args.start_num + 2) >>

C6_Witness ==
    /\ bpc = "returned" /\ args.count = 3 /\ Failed = {2}
    /\ attempts[1].outcome = "saved" /\ attempts[3].outcome = "saved"
    /\ fs[OutputPath(args, args.start_num + 1)] = Absent

\* C7: a call for a path that exists, with overwrite disabled, leaves every
\* file as it is, draws nothing, raises nothing and reports the path as
\* skipped; with overwrite disabled no existing file ever changes.
C7_NoOverwrite ==
    [][ /\ (bpc = "loop" /\ i < args.count /\ fs[CurrentPath].exists
              /\ ~args.overwrite)
           => /\ fs' = fs
              /\ last_draw' = last_draw
              /\ bpc' = "loop"
              /\ attempts' = Append(attempts,
                     [number |-> args.start_num + i, outcome |-> "skipped"])
              /\ out' = out \o << <<"Skipping", CurrentPath>>,
                                  <<"Generated", CurrentPath>> >>
              /\ generated_files' = Append(generated_files, CurrentPath)
        /\ ~args.overwrite
              => \A p \in Paths : fs[p].exists => fs'[p] = fs[p] ]_vars

\* A file saved by an earlier run of the batch is skipped by the next run,
\* although this run's image could not have been generated.
C7_Witness ==
    /\ ~args.overwrite /\ bpc = "returned" /\ args.count = 2
    /\ attempts[1].outcome = "skipped" /\ attempts[2].outcome = "skipped"
    /\ fs[OutputPath(args, args.start_num)].text = args.start_num
    /\ fs[OutputPath(args, args.start_num + 1)] = OldFile

C7_WitnessNoError ==
    /\ ~args.overwrite /\ args.bg_color = "notacolor123"
    /\ Len(attempts) = 2
    /\ attempts[1].outcome = "skipped" /\ attempts[2].outcome = "error"

\* C8: the draw origin is x = floor((W - (right - left)) / 2) and
\* y = floor((H - top - bottom) / 2), negative values included; the box
\* (0, 5, 40, 30) on a 100x100 canvas is drawn at (30, 32).
C8_CenteredOrigin ==
    last_draw # NoDraw =>
        LET W == last_draw.size[1]
            H == last_draw.size[2]
            b == last_draw.bbox
            x == last_draw.origin[1]
            y == last_draw.origin[2]
        IN  /\ 2 * x <= W - (b[3] - b[1]) /\ W - (b[3] - b[1]) <= 2 * x + 1
            /\ 2 * y <= H - b[2] - b[4] /\ H - b[2] - b[4] <= 2 * y + 1
            /\ (W = 100 /\ H = 100 /\ b = <<0, 5, 40, 30>>)
                  => (x = 30 /\ y = 32)

C8_Witness ==
    /\ last_draw.size = <<12, 9>>
    /\ last_draw.origin[1] < 0 /\ last_draw.origin[2] < 0
    /\ (last_draw.size[2] - last_draw.bbox[2] - last_draw.bbox[4]) % 2 = 1

C8_WitnessExample ==
    /\ last_draw.size = <<100, 100>> /\ last_draw.bbox = <<0, 5, 40, 30>>
    /\ last_draw.origin = <<30, 32>>

\* C10: start..start+count-1 are attempted once each, in increasing order,
\* and the list returned holds exactly the paths of the attempts that did
\* not raise, in that order, without duplicates, each printed as Generated;
\* its length is count minus the number of failures.
C10_BatchSequencing ==
    /\ bpc \in {"loop", "returned"} =>
          /\ Len(attempts) = i
          /\ \A k \in 1..Len(attempts) :
                attempts[k].number = args.start_num + k - 1
          /\ generated_files = ReturnedAttempts
          /\ [k \in 1..Len(GeneratedLines) |-> GeneratedLines[k][2]]
                = generated_files
          /\ \A a, b \in 1..Len(generated_files) :
                a # b => generated_files[a] # generated_files[b]
    /\ bpc = "returned" =>
          /\ i = args.count
          /\ Len(generated_files) = args.count - Cardinality(Failed)

C10_Witness ==
    /\ bpc = "returned" /\ args.count = 3 /\ args.start_num = 2
    /\ attempts[1].outcome = "skipped"
    /\ attempts[2].outcome = "error"
    /\ attempts[3].outcome = "saved"
    /\ Len(generated_files) = 2

====
